---- MODULE Spec2Model ----
(***************************************************************************)
(* Request handlers of the Candidate Evaluation API                        *)
(* (src/mock_interview_app/main.py): POST /questions, POST /check-answers  *)
(* and POST /complete-evaluation.  One request is in flight at a time; a   *)
(* handler is a sequence of steps split at its collaborator calls (PDF     *)
(* text extraction, prepare_prompt, get_questions,                         *)
(* prepare_prompt_for_answercheck, get_evaluation, get_feedback_for_score, *)
(* evaluate_candidate).  What a collaborator returns or raises is an input *)
(* of the step that calls it.                                              *)
(***************************************************************************)
EXTENDS Integers, Sequences, FiniteSets, TLC

VARIABLES op, pc, args, locals, calls, raised, response

vars == <<op, pc, args, locals, calls, raised, response>>

(* ------------------------------ bounds -------------------------------- *)

MaxStrLen == 2      \* longest text (resume text, tech stack, answer)
MaxQuestions == 2   \* longest list get_questions returns
MaxAnswers == 2     \* most question/answer pairs in an answer map
MaxFileSize == 1    \* most bytes in the uploaded file

(* ------------------------- program constants -------------------------- *)

HTTP_200_OK == 200
HTTP_204_NO_CONTENT == 204
HTTP_400_BAD_REQUEST == 400
HTTP_415_UNSUPPORTED_MEDIA_TYPE == 415
HTTP_422_UNPROCESSABLE_ENTITY == 422
HTTP_500_INTERNAL_SERVER_ERROR == 500

MinDifficulty == 1
MaxDifficulty == 5
MinQuestionCount == 1
MaxQuestionCount == 20

(* ------------------------------- text --------------------------------- *)

\* A Python str is a sequence of characters; " " stands for whitespace.
Chars == {" ", "a"}

Text == UNION {[1..k -> Chars] : k \in 0..MaxStrLen}

RECURSIVE lstrip(_)
lstrip(s) ==
  IF s = <<>> THEN s
  ELSE IF Head(s) = " " THEN lstrip(Tail(s)) ELSE s

RECURSIVE rstrip(_)
rstrip(s) ==
  IF s = <<>> THEN s
  ELSE IF s[Len(s)] = " " THEN rstrip(SubSeq(s, 1, Len(s) - 1)) ELSE s

\* str.strip()
strip(s) == rstrip(lstrip(s))

(* ---------------------------- JSON values ----------------------------- *)

JStr(s) == [t |-> "str", s |-> s, n |-> 0]
JInt(k) == [t |-> "int", s |-> <<>>, n |-> k]
JNull == [t |-> "null", s |-> <<>>, n |-> 0]

\* Python truth value of a JSON scalar: "", 0 and None are false.
truthy(v) ==
  CASE v.t = "str" -> v.s # <<>>
    [] v.t = "int" -> v.n # 0
    [] OTHER -> FALSE

(* ----------------------------- exceptions ----------------------------- *)

ExcKinds == {"ValueError", "EvaluationError", "RuntimeError"}
ExcMsgs == {"backend down", "bad value"}
Exceptions == [kind : ExcKinds, msg : ExcMsgs]
NoExc == [kind |-> "none", msg |-> ""]

(* ------------------------------ responses ----------------------------- *)

NoBody == [kind |-> "none"]

\* HTTPException(status_code, detail); an f-string detail is its literal
\* part (detail) followed by the interpolated text (msg) or number (n).
HTTPException(status_code, detail, msg, n) ==
  [status |-> status_code, detail |-> detail, msg |-> msg, n |-> n,
   body |-> NoBody]

\* A returned value or JSONResponse: no detail, a body.
JSONResponse(status_code, content) ==
  [status |-> status_code, detail |-> "", msg |-> "", n |-> -1,
   body |-> content]

NoResponse == HTTPException(0, "", "", -1)

\* str(e) of the HTTPException(422, "Could not extract text from PDF. The
\* file may be empty or corrupted.") raised for empty text, as starlette
\* renders it: "status_code: detail".
StrUnprocessable ==
  "422: Could not extract text from PDF. The file may be empty or corrupted."

(* ------------------------------ requests ------------------------------ *)

ContentTypes == {"application/pdf", "application/x-pdf", "image/png"}

Files == [content_type : ContentTypes, size : 0..MaxFileSize]

\* Variant: a deny-list where the source has an allow-list.
IsPdf_denylist(content_type) ==
  content_type \notin {"text/plain", "text/html"}

IsPdf(content_type) ==
  content_type \in {"application/pdf", "application/x-pdf"}

\* Variant: questionCount left out of the required fields.
required_fields_short == <<"techStack", "difficultyLevel">>

required_fields == <<"techStack", "difficultyLevel", "questionCount">>

KeyNames == {"techStack", "difficultyLevel", "questionCount", "other"}

DifficultyInputs ==
  {MinDifficulty - 1, MinDifficulty, MaxDifficulty, MaxDifficulty + 1}
QuestionCountInputs ==
  {MinQuestionCount - 1, MinQuestionCount, MaxQuestionCount,
   MaxQuestionCount + 1}

Payload(kind, n, keys, ts, dl, qc) ==
  [kind |-> kind, n |-> n, keys |-> keys,
   techStack |-> IF kind = "object" /\ "techStack" \in keys THEN ts ELSE JNull,
   difficultyLevel |->
     IF kind = "object" /\ "difficultyLevel" \in keys THEN dl ELSE JNull,
   questionCount |->
     IF kind = "object" /\ "questionCount" \in keys THEN qc ELSE JNull]

\* The `data` form field of /questions: absent (None or ""), text that is
\* not JSON, a JSON number, a JSON array of strings (keys = its elements),
\* or a JSON object (keys = its keys).
Payloads ==
  {Payload(k, 0, {}, JNull, JNull, JNull) : k \in {"absent", "malformed"}}
  \cup {Payload("number", n, {}, JNull, JNull, JNull) : n \in {0, 7}}
  \cup {Payload("array", 0, ks, JNull, JNull, JNull) : ks \in SUBSET KeyNames}
  \cup {Payload("object", 0, ks, JStr(ts), dl, JInt(qc)) :
          ks \in SUBSET KeyNames, ts \in {<<"a">>},
          dl \in {JInt(d) : d \in DifficultyInputs} \cup {JStr(<<"a">>)},
          qc \in QuestionCountInputs}

\* json.loads(data) if data else {}
json_loads(data) ==
  IF data.kind = "absent"
  THEN Payload("object", 0, {}, JNull, JNull, JNull)
  ELSE data

\* Python truth value of the parsed payload.
truthy_json(json_data) ==
  CASE json_data.kind = "number" -> json_data.n # 0
    [] OTHER -> json_data.keys # {}

\* The required fields that fail `field in json_data`, in checking order.
MissingFields(json_data) ==
  SelectSeq(required_fields, LAMBDA f : f \notin json_data.keys)

NoArgs == [none |-> TRUE]
NoLocals == [none |-> TRUE]

Init ==
  /\ op = "none"
  /\ pc = "idle"
  /\ args = NoArgs
  /\ locals = NoLocals
  /\ calls = <<>>
  /\ raised = NoExc
  /\ response = NoResponse

\* The handler ends with response r; e is the exception a collaborator
\* raised in this step (NoExc when none did).
Respond(r, e) ==
  /\ response' = r
  /\ raised' = e
  /\ pc' = "done"
  /\ UNCHANGED <<op, args, locals>>

\* The same, with a local assigned before the handler ends.
RespondWith(r, e, newLocals) ==
  /\ response' = r
  /\ raised' = e
  /\ pc' = "done"
  /\ locals' = newLocals
  /\ UNCHANGED <<op, args>>

\* The handler moves on to step next with its locals updated.
Advance(next, newLocals) ==
  /\ pc' = next
  /\ locals' = newLocals
  /\ UNCHANGED <<op, args, raised, response>>

\* except Exception at the end of each handler
Unexpected(msg) ==
  HTTPException(HTTP_500_INTERNAL_SERVER_ERROR,
                "An unexpected error occurred: ", msg, -1)

(* ---------------------------- POST /questions ------------------------- *)

Request_questions ==
  /\ pc = "idle"
  /\ \E f \in Files, d \in Payloads :
       /\ op' = "questions"
       /\ args' = [file |-> f, data |-> d]
  /\ pc' = "q_validate"
  /\ UNCHANGED <<locals, calls, raised, response>>

\* Content-type check, file.read(), JSON parsing and required fields.
\* processed_data keeps file_size and json_data; file_name is carried through
\* untouched and is left out.
Q_Validate ==
  /\ pc = "q_validate"
  /\ UNCHANGED calls
  /\ IF ~IsPdf(args.file.content_type)
     THEN Respond(HTTPException(HTTP_415_UNSUPPORTED_MEDIA_TYPE,
                                "File is not a valid PDF", "", -1), NoExc)
     ELSE IF args.data.kind = "malformed"
     THEN Respond(HTTPException(HTTP_400_BAD_REQUEST,
                                "Invalid JSON data format", "", -1), NoExc)
     ELSE LET json_data == json_loads(args.data) IN
       IF ~truthy_json(json_data)
       THEN Respond(HTTPException(HTTP_400_BAD_REQUEST,
                      "Missing required parameters in JSON data", "", -1),
                    NoExc)
       ELSE IF json_data.kind = "number"
       THEN Respond(Unexpected("argument of type 'int' is not iterable"),
                    NoExc)
       ELSE IF MissingFields(json_data) # <<>>
       THEN Respond(HTTPException(HTTP_400_BAD_REQUEST,
                      "Missing required field: ",
                      Head(MissingFields(json_data)), -1), NoExc)
       ELSE Advance("q_extract",
                    [pdf_data |-> args.file.size, json_data |-> json_data,
                     resume_text |-> <<>>, prompt |-> "",
                     questions |-> <<>>,
                     processed_data |->
                       [file_size |-> args.file.size,
                        json_data |-> json_data]])

\* What the extraction try block makes of the text fitz returned: for
\* empty text it raises HTTPException(422) inside the try, and the try's
\* own `except Exception` catches it (HTTPException is an Exception) and
\* raises the 500 in its place.
ExtractedText(text, next) ==
  IF strip(text) = <<>>
  THEN RespondWith(HTTPException(HTTP_500_INTERNAL_SERVER_ERROR,
                     "Failed to process PDF: ", StrUnprocessable, -1),
                   NoExc, [locals EXCEPT !.resume_text = text])
  ELSE Advance(next, [locals EXCEPT !.resume_text = text])

\* What the extraction try block makes of an exception fitz raised.
ExtractionFailure(e) ==
  HTTPException(HTTP_500_INTERNAL_SERVER_ERROR,
                "Failed to process PDF: ", e.msg, -1)

\* Variant: a failed extraction is tried once more.
Q_Extract_retry ==
  /\ pc = "q_extract"
  /\ calls' = Append(calls, "extract_text")
  /\ \/ \E text \in Text : ExtractedText(text, "q_prompt")
     \/ \E e \in Exceptions :
          IF Len(calls) = 0
          THEN UNCHANGED <<op, pc, args, locals, raised, response>>
          ELSE Respond(ExtractionFailure(e), e)

Q_Extract ==
  /\ pc = "q_extract"
  /\ calls' = Append(calls, "extract_text")
  /\ \/ \E text \in Text : ExtractedText(text, "q_prompt")
     \/ \E e \in Exceptions : Respond(ExtractionFailure(e), e)

\* Variant: the 500 detail leaves out str(e).
GenerationFailure_nomsg(e) ==
  IF e.kind = "ValueError"
  THEN HTTPException(HTTP_400_BAD_REQUEST, "", e.msg, -1)
  ELSE HTTPException(HTTP_500_INTERNAL_SERVER_ERROR,
                     "Failed to generate questions", "", -1)

\* except ValueError / except Exception around question generation
GenerationFailure(e) ==
  IF e.kind = "ValueError"
  THEN HTTPException(HTTP_400_BAD_REQUEST, "", e.msg, -1)
  ELSE HTTPException(HTTP_500_INTERNAL_SERVER_ERROR,
                     "Failed to generate questions: ", e.msg, -1)

Q_Prompt ==
  /\ pc = "q_prompt"
  /\ IF locals.json_data.kind = "array"
     THEN \* json_data['techStack'] on a list: TypeError before the call
          /\ UNCHANGED calls
          /\ Respond(HTTPException(HTTP_500_INTERNAL_SERVER_ERROR,
                       "Failed to generate questions: ",
                       "list indices must be integers or slices, not str",
                       -1), NoExc)
     ELSE /\ calls' = Append(calls, "prepare_prompt")
          /\ \/ Advance("q_generate", [locals EXCEPT !.prompt = "prompt"])
             \/ \E e \in Exceptions : Respond(GenerationFailure(e), e)

QuestionLists == UNION {[1..k -> {"question"}] : k \in 0..MaxQuestions}

\* Variant: a single question is treated as none.
QuestionsResponse_single(processed_data, questions) ==
  IF Len(questions) <= 1
  THEN JSONResponse(HTTP_204_NO_CONTENT,
         [kind |-> "message",
          message |->
            "No questions could be generated. Try adjusting parameters."])
  ELSE JSONResponse(HTTP_200_OK,
         [kind |-> "questions", metadata |-> processed_data,
          questions |-> questions, count |-> Len(questions)])

\* What the handler returns for the list get_questions returned.
QuestionsResponse(processed_data, questions) ==
  IF questions = <<>>
  THEN JSONResponse(HTTP_204_NO_CONTENT,
         [kind |-> "message",
          message |->
            "No questions could be generated. Try adjusting parameters."])
  ELSE JSONResponse(HTTP_200_OK,
         [kind |-> "questions", metadata |-> processed_data,
          questions |-> questions, count |-> Len(questions)])

Q_Generate ==
  /\ pc = "q_generate"
  /\ calls' = Append(calls, "get_questions")
  /\ \/ \E questions \in QuestionLists :
          RespondWith(QuestionsResponse(locals.processed_data, questions),
                      NoExc, [locals EXCEPT !.questions = questions])
     \/ \E e \in Exceptions : Respond(GenerationFailure(e), e)

(* -------------------------- POST /check-answers ----------------------- *)

QuestionIds == 1..MaxAnswers

\* An answer is whatever JSON value the body holds for the question.
AnswerValues == {JStr(s) : s \in Text} \cup {JInt(0), JInt(7), JNull}

\* The body is declared `dict`: the framework admits any JSON object.
AnswerMaps == UNION {[qs -> AnswerValues] : qs \in SUBSET QuestionIds}

\* A value on which `not a or not a.strip()` raises AttributeError.
NotStrippable(a) == truthy(a) /\ a.t # "str"

\* Variant: `if not a`, without the strip.
empty_answers_nostrip(json_data) ==
  {q \in DOMAIN json_data : ~truthy(json_data[q])}

\* [q for q, a in json_data.items() if not a or not a.strip()]
empty_answers(json_data) ==
  {q \in DOMAIN json_data :
     ~truthy(json_data[q]) \/ strip(json_data[q].s) = <<>>}

Request_check_answers ==
  /\ pc = "idle"
  /\ \E m \in AnswerMaps :
       /\ op' = "check_answers"
       /\ args' = [json_data |-> m]
  /\ pc' = "a_validate"
  /\ UNCHANGED <<locals, calls, raised, response>>

\* The body is bound as a dict by the framework, so the isinstance branch
\* is never taken; the checks start at `if not json_data`.
A_Validate ==
  /\ pc = "a_validate"
  /\ UNCHANGED calls
  /\ LET json_data == args.json_data IN
     IF DOMAIN json_data = {}
     THEN Respond(HTTPException(HTTP_400_BAD_REQUEST,
                    "No question-answer pairs provided", "", -1), NoExc)
     ELSE IF \E q \in DOMAIN json_data : NotStrippable(json_data[q])
     THEN Respond(Unexpected("'int' object has no attribute 'strip'"), NoExc)
     ELSE IF empty_answers(json_data) # {}
     THEN \* f"Empty answers provided for {n} questions"
          Respond(HTTPException(HTTP_400_BAD_REQUEST,
                    "Empty answers provided for ", " questions",
                    Cardinality(empty_answers(json_data))), NoExc)
     ELSE Advance("a_prompt", [prompt |-> "", score |-> 0])

\* except EvaluationError, then the handler's except Exception
EvaluationFailure(e) ==
  IF e.kind = "EvaluationError"
  THEN HTTPException(HTTP_500_INTERNAL_SERVER_ERROR,
                     "Evaluation failed: ", e.msg, -1)
  ELSE Unexpected(e.msg)

A_Prompt ==
  /\ pc = "a_prompt"
  /\ calls' = Append(calls, "prepare_prompt_for_answercheck")
  /\ \/ Advance("a_score", [locals EXCEPT !.prompt = "prompt"])
     \/ \E e \in Exceptions : Respond(EvaluationFailure(e), e)

Scores == {0, 7}

A_Score ==
  /\ pc = "a_score"
  /\ calls' = Append(calls, "get_evaluation")
  /\ \/ \E score \in Scores :
          Advance("a_feedback", [locals EXCEPT !.score = score])
     \/ \E e \in Exceptions : Respond(EvaluationFailure(e), e)

Feedbacks == {"feedback"}

A_Feedback ==
  /\ pc = "a_feedback"
  /\ calls' = Append(calls, "get_feedback_for_score")
  /\ \/ \E feedback \in Feedbacks :
          Respond(JSONResponse(HTTP_200_OK,
                    [kind |-> "evaluation", score |-> locals.score,
                     feedback |-> feedback,
                     evaluated_answers |-> Cardinality(DOMAIN args.json_data),
                     status |-> "success"]), NoExc)
     \/ \E e \in Exceptions : Respond(EvaluationFailure(e), e)

(* ----------------------- POST /complete-evaluation -------------------- *)

\* answers: Dict[str, str]; the handler only tests it for emptiness.
EvaluationAnswers ==
  UNION {[qs -> {JStr(<<"a">>)}] : qs \in {{}, {1}}}

Request_complete_evaluation ==
  /\ pc = "idle"
  /\ \E f \in Files, ts \in Text, d \in DifficultyInputs,
        qc \in QuestionCountInputs, a \in EvaluationAnswers :
       /\ op' = "complete_evaluation"
       /\ args' = [file |-> f, tech_stack |-> ts, difficulty |-> d,
                   question_count |-> qc, answers |-> a]
  /\ pc' = "e_check_type"
  /\ UNCHANGED <<locals, calls, raised, response>>

E_CheckType ==
  /\ pc = "e_check_type"
  /\ UNCHANGED calls
  /\ IF ~IsPdf(args.file.content_type)
     THEN Respond(HTTPException(HTTP_415_UNSUPPORTED_MEDIA_TYPE,
                                "File is not a valid PDF", "", -1), NoExc)
     ELSE Advance("e_extract",
                  [pdf_data |-> args.file.size, resume_text |-> <<>>,
                   result |-> NoBody])

E_Extract ==
  /\ pc = "e_extract"
  /\ calls' = Append(calls, "extract_text")
  /\ \/ \E text \in Text : ExtractedText(text, "e_validate")
     \/ \E e \in Exceptions : Respond(ExtractionFailure(e), e)

\* The checks between extraction and evaluate_candidate, in source order;
\* NoResponse when all pass.
ValidateInputs(tech_stack, difficulty, question_count, answers) ==
  IF strip(tech_stack) = <<>>
  THEN HTTPException(HTTP_400_BAD_REQUEST,
                     "Tech stack cannot be empty", "", -1)
  ELSE IF ~(MinDifficulty <= difficulty /\ difficulty <= MaxDifficulty)
  THEN HTTPException(HTTP_400_BAD_REQUEST,
                     "Difficulty must be an integer between 1 and 5", "", -1)
  ELSE IF ~(MinQuestionCount <= question_count
            /\ question_count <= MaxQuestionCount)
  THEN HTTPException(HTTP_400_BAD_REQUEST,
         "Question count must be an integer between 1 and 20", "", -1)
  ELSE IF DOMAIN answers = {}
  THEN HTTPException(HTTP_400_BAD_REQUEST,
                     "No answers provided for evaluation", "", -1)
  ELSE NoResponse

E_Validate ==
  /\ pc = "e_validate"
  /\ UNCHANGED calls
  /\ LET r == ValidateInputs(args.tech_stack, args.difficulty,
                             args.question_count, args.answers) IN
     IF r # NoResponse
     THEN Respond(r, NoExc)
     ELSE Advance("e_evaluate", locals)

\* What evaluate_candidate returns: a result tagged with a status, and an
\* error message when the status is "error".
Results ==
  {[kind |-> "result", status |-> s, error |-> ""] :
     s \in {"success", "partial"}}
  \cup {[kind |-> "result", status |-> "error", error |-> m] : m \in ExcMsgs}

\* Variant: the status is compared with "failed" instead of "error".
EvaluationResponse_failed(result) ==
  IF result.status = "failed"
  THEN HTTPException(HTTP_500_INTERNAL_SERVER_ERROR, "", result.error, -1)
  ELSE JSONResponse(HTTP_200_OK, result)

\* What the handler makes of the result evaluate_candidate returned.
EvaluationResponse(result) ==
  IF result.status = "error"
  THEN HTTPException(HTTP_500_INTERNAL_SERVER_ERROR, "", result.error, -1)
  ELSE JSONResponse(HTTP_200_OK, result)

E_Evaluate ==
  /\ pc = "e_evaluate"
  /\ calls' = Append(calls, "evaluate_candidate")
  /\ \/ \E result \in Results :
          RespondWith(EvaluationResponse(result), NoExc,
                      [locals EXCEPT !.result = result])
     \/ \E e \in Exceptions : Respond(Unexpected(e.msg), e)

(* ------------------------------ the server ---------------------------- *)

\* The response is sent; nothing of the request is kept.
Finish ==
  /\ pc = "done"
  /\ op' = "none"
  /\ pc' = "idle"
  /\ args' = NoArgs
  /\ locals' = NoLocals
  /\ calls' = <<>>
  /\ raised' = NoExc
  /\ response' = NoResponse

\* A step of the handler in flight.
Step ==
  \/ Q_Validate
  \/ Q_Extract
  \/ Q_Prompt
  \/ Q_Generate
  \/ A_Validate
  \/ A_Prompt
  \/ A_Score
  \/ A_Feedback
  \/ E_CheckType
  \/ E_Extract
  \/ E_Validate
  \/ E_Evaluate

Next ==
  \/ Request_questions
  \/ Request_check_answers
  \/ Request_complete_evaluation
  \/ Step
  \/ Finish

Spec == Init /\ [][Next]_vars

\* The event loop runs a started handler on, and a collaborator call returns
\* or raises.
FairSpec == Spec /\ WF_vars(Step)

(* ------------------------------ properties ---------------------------- *)

Done == pc = "done"

Called(c) == \E i \in 1..Len(calls) : calls[i] = c

Times(c) == Cardinality({i \in 1..Len(calls) : calls[i] = c})

Blank(s) == \A i \in 1..Len(s) : s[i] = " "

InRange(v, lo, hi) == v.t = "int" /\ lo <= v.n /\ v.n <= hi

PdfTypes == {"application/pdf", "application/x-pdf"}

RequiredKeys == {"techStack", "difficultyLevel", "questionCount"}

\* The /questions payload carries the three fields with values in range.
QuestionsInputsValid ==
  /\ args.data.kind = "object"
  /\ RequiredKeys \subseteq args.data.keys
  /\ InRange(args.data.difficultyLevel, 1, 5)
  /\ InRange(args.data.questionCount, 1, 20)

\* The /complete-evaluation form fields are all valid.
EvaluationInputsValid ==
  /\ ~Blank(args.tech_stack)
  /\ args.difficulty \in 1..5
  /\ args.question_count \in 1..20
  /\ DOMAIN args.answers # {}

\* The request is one with a PDF file whose extraction returned empty or
\* whitespace-only text, every other input being valid.
EmptyTextRequest ==
  /\ Done
  /\ op \in {"questions", "complete_evaluation"}
  /\ args.file.content_type \in PdfTypes
  /\ calls = <<"extract_text">>
  /\ raised = NoExc
  /\ Blank(locals.resume_text)
  /\ op = "questions" => QuestionsInputsValid
  /\ op = "complete_evaluation" => EvaluationInputsValid

\* C1: on /questions and /complete-evaluation, a PDF whose extraction
\* succeeds with empty or whitespace-only text (other inputs valid) ends
\* the request with status 422.
C1_EmptyTextIs422 ==
  EmptyTextRequest => response.status = 422

\* C2: on /complete-evaluation with a PDF, a difficulty outside [1,5] or a
\* question_count outside [1,20] ends the request with 400, and neither
\* text extraction nor evaluate_candidate was invoked before the response.
C2_RangeCheckedBeforeCollaborators ==
  (/\ Done
   /\ op = "complete_evaluation"
   /\ args.file.content_type \in PdfTypes
   /\ (args.difficulty \notin 1..5 \/ args.question_count \notin 1..20))
  => /\ response.status = 400
     /\ ~Called("extract_text")
     /\ ~Called("evaluate_candidate")

\* C3: on /questions and /complete-evaluation, a file whose content type is
\* not application/pdf or application/x-pdf gets 415 and no collaborator is
\* invoked at any point of the request, whatever the other inputs.
C3_NonPdfIs415 ==
  (/\ op \in {"questions", "complete_evaluation"}
   /\ args.file.content_type \notin PdfTypes)
  => /\ calls = <<>>
     /\ Done => response.status = 415

C3_Witness ==
  /\ Done
  /\ op = "complete_evaluation"
  /\ args.file.content_type = "image/png"
  /\ EvaluationInputsValid
  /\ response.status = 415

\* The /questions request carries a PDF and a payload that parses to a JSON
\* object lacking at least one required key.
ObjectLacksKey ==
  /\ op = "questions"
  /\ args.file.content_type \in PdfTypes
  /\ args.data.kind = "object"
  /\ RequiredKeys \ args.data.keys # {}

NamesMissingField ==
  /\ response.status = 400
  /\ response.detail = "Missing required field: "
  /\ response.msg \in RequiredKeys \ args.data.keys

\* C4 as stated: on /questions with a PDF, every parsed JSON payload lacking
\* at least one of techStack, difficultyLevel, questionCount (the payload
\* lacking all three included) gets 400 with a detail naming a missing
\* field, and no extraction or generation call is made.
C4_Original ==
  ObjectLacksKey => /\ calls = <<>>
                    /\ Done => NamesMissingField

\* C4 (amended): the same for every non-empty JSON object lacking a
\* required key; the empty object gets 400 with the detail "Missing required
\* parameters in JSON data", which names no field.  No extraction or
\* generation call is made in either case.
C4_MissingFieldIs400 ==
  ObjectLacksKey =>
    /\ calls = <<>>
    /\ Done =>
         IF args.data.keys # {}
         THEN NamesMissingField
         ELSE /\ response.status = 400
              /\ response.detail = "Missing required parameters in JSON data"

C4_Witness ==
  /\ Done
  /\ ObjectLacksKey
  /\ args.data.keys = {"techStack", "questionCount", "other"}
  /\ response.msg = "difficultyLevel"

\* The answers that are empty or whitespace-only.
BlankAnswers(m) == {q \in DOMAIN m : Blank(m[q].s)}

C6_GenerationOnlyInRange ==
  (op = "questions" /\ (Called("prepare_prompt") \/ Called("get_questions")))
  => QuestionsInputsValid

\* get_questions returned (did not raise) in this /questions request.
QuestionsReturned ==
  /\ op = "questions"
  /\ Done
  /\ Called("get_questions")
  /\ raised = NoExc

\* C7: on /questions the response is 204 exactly when get_questions
\* returned an empty list without failing; a non-empty list gives 200 with
\* metadata, the questions and count = the number of questions; a failure
\* of get_questions never gives 204.
C7_NoContentIffEmpty ==
  (op = "questions" /\ Done) =>
    /\ response.status = 204 <=> (QuestionsReturned /\ locals.questions = <<>>)
    /\ (QuestionsReturned /\ locals.questions # <<>>) =>
         /\ response.status = 200
         /\ response.body.kind = "questions"
         /\ response.body.metadata = locals.processed_data
         /\ response.body.questions = locals.questions
         /\ response.body.count = Len(locals.questions)

C7_Witness ==
  /\ QuestionsReturned
  /\ locals.questions = <<>>
  /\ response.status = 204

\* A collaborator call of this request raised.
CollaboratorFailed == Done /\ raised # NoExc

\* C8 as stated: in every operation, a collaborator call that fails with any
\* exception ends the request with 500 and a detail containing the original
\* message; never a success or a 4xx.
C8_Original ==
  CollaboratorFailed => /\ response.status = 500
                        /\ response.msg = raised.msg

\* The failure is a ValueError out of prepare_prompt or get_questions.
GenerationValueError ==
  /\ op = "questions"
  /\ calls[Len(calls)] \in {"prepare_prompt", "get_questions"}
  /\ raised.kind = "ValueError"

\* C8 (amended): a collaborator failure ends the request with 500 and a
\* detail containing the original message, except a ValueError raised by
\* prepare_prompt or get_questions on /questions, which ends it with 400
\* and the message as the detail; a failure never ends in a success.
C8_FailureIs500 ==
  CollaboratorFailed =>
    /\ response.msg = raised.msg
    /\ response.body = NoBody
    /\ response.status = IF GenerationValueError THEN 400 ELSE 500

C8_Witness ==
  /\ CollaboratorFailed
  /\ op = "questions"
  /\ calls = <<"extract_text", "prepare_prompt", "get_questions">>
  /\ raised = [kind |-> "RuntimeError", msg |-> "backend down"]
  /\ response.status = 500
  /\ response.detail = "Failed to generate questions: "

\* evaluate_candidate returned (did not raise) in this request.
CandidateEvaluated ==
  /\ op = "complete_evaluation"
  /\ Done
  /\ Called("evaluate_candidate")
  /\ raised = NoExc

\* C9: on /complete-evaluation, a result of evaluate_candidate with status
\* "error" gives 500 with exactly the result's error message as the detail;
\* any other result is returned unchanged with status 200.
C9_ErrorResultIs500 ==
  CandidateEvaluated =>
    IF locals.result.status = "error"
    THEN /\ response.status = 500
         /\ response.detail = ""
         /\ response.msg = locals.result.error
         /\ response.body = NoBody
    ELSE /\ response.status = 200
         /\ response.body = locals.result

C9_Witness ==
  /\ CandidateEvaluated
  /\ locals.result.status = "error"
  /\ response.status = 500
  /\ response.msg = "bad value"

Collaborators ==
  {"extract_text", "prepare_prompt", "get_questions",
   "prepare_prompt_for_answercheck", "get_evaluation",
   "get_feedback_for_score", "evaluate_candidate"}

\* C10: every request ends with a response, and with one only (nothing
\* follows the response but the end of the request); each collaborator is
\* invoked at most once per request; a failure of a stage ends the request
\* at once, so no later stage is invoked.
C10_StraightLine ==
  /\ [](pc # "idle" => <>Done)
  /\ [](\A c \in Collaborators : Times(c) <= 1)
  /\ [](raised # NoExc => Done)
  /\ [][Done => pc' = "idle"]_vars

C10_Witness ==
  /\ Done
  /\ op = "questions"
  /\ raised # NoExc
  /\ calls = <<"extract_text">>
  /\ response.status = 500

====
